---- MODULE Spec2Model ----
(***************************************************************************)
(* Model of the Spreadsheet container component (src/src/Spreadsheet.tsx): *)
(* the clipboard handlers (clip, isFocused, handleCopy, handlePaste,       *)
(* handleCut), the mount/unmount listener wiring and the two formula       *)
(* resolution handlers registered on the expression evaluator.             *)
(*                                                                         *)
(* Text is a sequence of one-character strings, so that joining and        *)
(* splitting on separators are computed, not assumed.  Coordinates are     *)
(* 0-based as in the source; sequences are 1-based, hence the "+ 1".       *)
(***************************************************************************)
EXTENDS Integers, Sequences, FiniteSets, TLC

\* ---------------------------------------------------------------- bounds
NumRows == 2          \* rows of the store's data matrix
NumCols == 2          \* columns of the store's data matrix
MaxCells == 2         \* cells the sparse data matrix holds at most

\* ------------------------------------------------------------- constants
TAB == "\t"
NL  == "\n"

\* JavaScript's undefined and null, kept apart from every text value
Undefined == <<"#undefined">>
Null      == <<"#null">>
\* event.clipboardData absent
NoData    == <<"#nodata">>

Rows == 0 .. (NumRows - 1)
Cols == 0 .. (NumCols - 1)
Points == [row : Rows, column : Cols]

\* values a cell of the store holds in the event-level specification
StoreValues == { <<"1">> }
\* values drawn for the serialization specification
ClipValues == { <<"1">>, <<"2", TAB, "3">> }

\* texts a paste event can carry
PasteTexts == { <<"1">>, <<"1", TAB, "1">>, <<"1", NL, "1">> }

\* ------------------------------------------------------- matrix utility
\* Matrix.get: undefined for a missing row or a missing column
Get(row, column, matrix) ==
  IF (row + 1) \notin DOMAIN matrix
    THEN Undefined
    ELSE IF (column + 1) \notin DOMAIN matrix[row + 1]
           THEN Undefined
           ELSE matrix[row + 1][column + 1]

\* Matrix.slice: the rectangle startPoint..endPoint, missing cells undefined
Slice(startPoint, endPoint, matrix) ==
  [r \in 1 .. (endPoint.row - startPoint.row + 1) |->
     [c \in 1 .. (endPoint.column - startPoint.column + 1) |->
        Get(startPoint.row + r - 1, startPoint.column + c - 1, matrix)]]

\* Matrix.getSize
GetSize(matrix) ==
  [rows |-> Len(matrix),
   columns |-> IF Len(matrix) > 0 THEN Len(matrix[1]) ELSE 0]

RECURSIVE JoinSeq(_, _)
\* the texts of parts, separated by sep
JoinSeq(parts, sep) ==
  IF Len(parts) = 0 THEN <<>>
  ELSE IF Len(parts) = 1 THEN parts[1]
  ELSE parts[1] \o <<sep>> \o JoinSeq(Tail(parts), sep)

\* Matrix.join: fields joined by tab, rows joined by newline
Join(matrix) ==
  LET size == GetSize(matrix)
      rowText(r) == JoinSeq([c \in 1 .. size.columns |-> matrix[r][c]], TAB)
  IN  JoinSeq([r \in 1 .. size.rows |-> rowText(r)], NL)

RECURSIVE SplitOn(_, _)
\* String.prototype.split on a one-character separator
SplitOn(text, sep) ==
  IF \A i \in 1 .. Len(text) : text[i] # sep
    THEN <<text>>
    ELSE LET i == CHOOSE k \in 1 .. Len(text) :
                    /\ text[k] = sep
                    /\ \A j \in 1 .. (k - 1) : text[j] # sep
         IN  <<SubSeq(text, 1, i - 1)>> \o SplitOn(SubSeq(text, i + 1, Len(text)), sep)

\* Matrix.split: rows on newline, then fields on tab
Split(text) ==
  LET rows == SplitOn(text, NL)
  IN  [r \in 1 .. Len(rows) |-> SplitOn(rows[r], TAB)]

\* ---------------------------------------------------- point-set utility
\* PointSet.min / PointSet.max: corners of the bounding rectangle
Min(S) == CHOOSE m \in S : \A n \in S : m <= n
Max(S) == CHOOSE m \in S : \A n \in S : m >= n
PointSetMin(set) ==
  [row |-> Min({p.row : p \in set}), column |-> Min({p.column : p \in set})]
PointSetMax(set) ==
  [row |-> Max({p.row : p \in set}), column |-> Max({p.column : p \in set})]

\* the points of the rectangle spanned by two corners, in any order
RangeSet(p, q) ==
  { x \in Points :
      /\ x.row >= Min({p.row, q.row}) /\ x.row <= Max({p.row, q.row})
      /\ x.column >= Min({p.column, q.column})
      /\ x.column <= Max({p.column, q.column}) }

\* ------------------------------------------------------ value extraction
\* the default getValue: data ? data.value : null
getValue(data) == IF data = Undefined THEN Null ELSE data

\* the getValue prop: the default above, or a user-supplied one without the
\* guard (({ data }) => data.value), which throws on an undefined cell
GetValueKinds == {"default", "strict"}
GetValueThrows(kind, data) == kind = "strict" /\ data = Undefined
GetValueProp(kind, data) == IF kind = "default" THEN getValue(data) ELSE data

\* ----------------------------------------------------------------- clip
\* the value mapping of clip without the test for undefined
ClipValueNoGuard(value, point) == getValue(value)

\* the value matrix clip builds from the sliced matrix
ClipValue(value, point) == IF value = Undefined THEN <<>> ELSE getValue(value)

\* clip with the start and end points exchanged
clipSwappedCorners(d, sel) ==
  LET startPoint == PointSetMax(sel)
      endPoint == PointSetMin(sel)
      slicedMatrix == Slice(startPoint, endPoint, d)
      valueMatrix ==
        [r \in DOMAIN slicedMatrix |->
           [c \in DOMAIN slicedMatrix[r] |->
              ClipValue(slicedMatrix[r][c], [row |-> r - 1, column |-> c - 1])]]
  IN  Join(valueMatrix)

\* the text clip writes to the clipboard for store state (data, selected)
clip(d, sel) ==
  LET startPoint == PointSetMin(sel)
      endPoint == PointSetMax(sel)
      slicedMatrix == Slice(startPoint, endPoint, d)
      \* Matrix.map: the callback on every position, the point relative to the slice
      valueMatrix ==
        [r \in DOMAIN slicedMatrix |->
           [c \in DOMAIN slicedMatrix[r] |->
              ClipValue(slicedMatrix[r][c], [row |-> r - 1, column |-> c - 1])]]
  IN  Join(valueMatrix)

\* ---------------------------------------------------------------- state
VARIABLES
  mounted,        \* the component is mounted
  root,           \* this.root: "div" once the ref is set, "null" otherwise
  listeners,      \* the component's listeners registered on document
  parserHandlers, \* handler pairs registered on the evaluator in use
  externalParser, \* props.formulaParser was supplied
  getValueKind,   \* props.getValue
  mode,           \* store state: mode
  activeElement,  \* document.activeElement: "root", "child" or "outside"
  data,           \* store state: data matrix
  active,         \* store state: active cell
  selected,       \* store state: selected point set
  dragging,       \* store state: a drag is in progress
  copied,         \* store state: the points that are keys of the copied region
  hasPasted,      \* store state: the copied region has been pasted
  indicator,      \* the points the Copied overlay is computed from
  last,           \* the clipboard event handled by the latest step
  res,            \* the formula resolution handled by the latest step
  round           \* the serialization applied by the latest step

vars == <<mounted, root, listeners, parserHandlers, externalParser, getValueKind,
          mode, activeElement, data, active, selected, dragging, copied,
          hasPasted, indicator, last, res, round>>

MaxHandlers == 2      \* mounts counted on an externally supplied evaluator

Modes == {"view", "edit"}
Elements == {"root", "child", "outside"}
ClipboardListeners == {"cut", "copy", "paste"}

EmptyMatrix == [r \in 1 .. NumRows |-> [c \in 1 .. NumCols |-> Undefined]]

\* the points of a matrix that hold a cell
Populated(matrix) ==
  { p \in Points : Get(p.row, p.column, matrix) # Undefined }

\* the sparse matrix that holds cells[p] at each point p of its domain
MatrixOf(cells) ==
  [r \in 1 .. NumRows |->
     [c \in 1 .. NumCols |->
        LET p == [row |-> r - 1, column |-> c - 1]
        IN  IF p \in DOMAIN cells THEN cells[p] ELSE Undefined]]

\* the sparse matrices of at most MaxCells cells with values of the given set
MatricesOver(values) ==
  UNION { { MatrixOf(cells) : cells \in [S -> values] } :
            S \in { T \in SUBSET Points : Cardinality(T) <= MaxCells } }

NoEvent == [kind |-> "none", mode |-> "view", root |-> "null",
            activeElement |-> "outside", clipboardData |-> NoData,
            data |-> EmptyMatrix, selected |-> {}, dragging |-> FALSE,
            input |-> <<>>, trace |-> <<>>]
NoRes == [kind |-> "none", start |-> [row |-> 0, column |-> 0],
          end |-> [row |-> 0, column |-> 0], done |-> 0, value |-> Undefined,
          values |-> <<>>, logged |-> FALSE, threw |-> FALSE]
NoRound == [applied |-> FALSE, text |-> <<>>, parsed |-> <<>>]

\* one observable effect of a handler, in the order the handler performs it
Effect(op, arg) == [op |-> op, arg |-> arg]

\* ------------------------------------------------------- store reducers
\* Actions.copy: marks the selection as copied, the data is untouched
StoreCopy(d, sel) == d

\* Actions.cut: "clear selection contents"
StoreCut(d, sel) ==
  [r \in DOMAIN d |->
     [c \in DOMAIN d[r] |->
        IF [row |-> r - 1, column |-> c - 1] \in sel THEN Undefined ELSE d[r][c]]]

\* Actions.copy and Actions.cut: the selection becomes the copied region, not
\* yet pasted
StoreCopyMarks(cop, pasted, sel) == [copied |-> sel, hasPasted |-> FALSE]

\* Actions.paste: the copied region has been pasted
StorePasteMarks(cop, pasted) == [copied |-> cop, hasPasted |-> TRUE]

\* the mapping of Copied without the hasPasted test
CopiedCellsIgnoresPasted(pasted, cop) == { p \in Points : p \in cop }

\* Copied.tsx: hasPasted ? PointSet.from([]) : PointMap.map(() => true, copied)
CopiedCells(pasted, cop) == IF pasted THEN {} ELSE { p \in Points : p \in cop }

\* Actions.paste: split the text and merge it into the data at the active cell
PasteFits(d, at, text) ==
  LET m == Split(text)
      target == { p \in Points : /\ (p.row - at.row + 1) \in DOMAIN m
                                 /\ (p.column - at.column + 1)
                                       \in DOMAIN m[p.row - at.row + 1] }
  IN  /\ at.row + Len(m) <= NumRows
      /\ \A r \in 1 .. Len(m) : at.column + Len(m[r]) <= NumCols
      /\ Cardinality(Populated(d) \cup target) <= MaxCells
StorePaste(d, at, text) ==
  LET m == Split(text)
  IN  [r \in DOMAIN d |->
         [c \in DOMAIN d[r] |->
            LET pr == r - at.row
                pc == c - at.column
            IN  IF pr \in DOMAIN m /\ pc \in DOMAIN m[pr]
                  THEN m[pr][pc] ELSE d[r][c]]]

\* ------------------------------------------------------------ lifecycle
\* handleRoot(div) then componentDidMount
Mount ==
  /\ ~mounted
  /\ externalParser => parserHandlers < MaxHandlers
  /\ mounted' = TRUE
  /\ root' = "div"
  /\ listeners' = listeners \cup ClipboardListeners
  /\ parserHandlers' = IF externalParser THEN parserHandlers + 1 ELSE 1
  /\ last' = NoEvent /\ res' = NoRes /\ round' = NoRound
  /\ UNCHANGED <<externalParser, getValueKind, mode, activeElement, data,
                 active, selected>>
  /\ UNCHANGED <<dragging, copied, hasPasted, indicator>>

\* componentWillUnmount that leaves the paste listener on the document
UnmountKeepsPaste ==
  /\ mounted
  /\ mounted' = FALSE
  /\ root' = "null"
  /\ listeners' = listeners \ {"cut", "copy"}
  /\ last' = NoEvent /\ res' = NoRes /\ round' = NoRound
  /\ UNCHANGED <<parserHandlers, externalParser, getValueKind, mode,
                 activeElement, data, active, selected>>
  /\ UNCHANGED <<dragging, copied, hasPasted, indicator>>

\* componentWillUnmount then handleRoot(null)
Unmount ==
  /\ mounted
  /\ mounted' = FALSE
  /\ root' = "null"
  /\ listeners' = listeners \ ClipboardListeners
  /\ last' = NoEvent /\ res' = NoRes /\ round' = NoRound
  /\ UNCHANGED <<parserHandlers, externalParser, getValueKind, mode,
                 activeElement, data, active, selected>>
  /\ UNCHANGED <<dragging, copied, hasPasted, indicator>>

\* ------------------------------------------------------- the environment
\* focus moves to another element of the document
Focus(el) ==
  /\ el # activeElement
  /\ activeElement' = el
  /\ last' = NoEvent /\ res' = NoRes /\ round' = NoRound
  /\ UNCHANGED <<mounted, root, listeners, parserHandlers, externalParser,
                 getValueKind, mode, data, active, selected>>
  /\ UNCHANGED <<dragging, copied, hasPasted, indicator>>

\* the store switches between viewing and editing
SetMode(m) ==
  /\ m # mode
  /\ mode' = m
  /\ last' = NoEvent /\ res' = NoRes /\ round' = NoRound
  /\ UNCHANGED <<mounted, root, listeners, parserHandlers, externalParser,
                 getValueKind, activeElement, data, active, selected>>
  /\ UNCHANGED <<dragging, copied, hasPasted, indicator>>

\* the store replaces the data matrix with one that differs in one cell
SetCell(p, v) ==
  /\ Get(p.row, p.column, data) # v
  /\ v # Undefined => Cardinality(Populated(data) \cup {p}) <= MaxCells
  /\ data' = [data EXCEPT ![p.row + 1][p.column + 1] = v]
  /\ last' = NoEvent /\ res' = NoRes /\ round' = NoRound
  /\ UNCHANGED <<mounted, root, listeners, parserHandlers, externalParser,
                 getValueKind, mode, activeElement, active, selected>>
  /\ UNCHANGED <<dragging, copied, hasPasted, indicator>>

\* the store activates and selects the cell p
Select(p) ==
  /\ <<active, selected>> # <<p, RangeSet(p, p)>>
  /\ active' = p
  /\ selected' = RangeSet(p, p)
  /\ last' = NoEvent /\ res' = NoRes /\ round' = NoRound
  /\ UNCHANGED <<mounted, root, listeners, parserHandlers, externalParser,
                 getValueKind, mode, activeElement, data>>
  /\ UNCHANGED <<dragging, copied, hasPasted, indicator>>

\* ------------------------------------------------------ clipboard events
\* isFocused without the mode test
isFocusedAnyMode(m, rt, el) ==
  IF rt # "null" THEN el = "root" \/ el = "child" ELSE FALSE

\* Spreadsheet.isFocused
isFocused(m, rt, el) ==
  IF m = "view" /\ rt # "null"
    THEN el = "root" \/ el = "child"
    ELSE FALSE

\* the event as it reaches a handler, with the state it is handled in
Event(kind, clipboardData) ==
  [kind |-> kind, mode |-> mode, root |-> root, activeElement |-> activeElement,
   clipboardData |-> clipboardData, data |-> data, selected |-> selected,
   dragging |-> dragging, input |-> <<>>, trace |-> <<>>]

\* what handleCopy does, in order, when it runs in the given state
handleCopyTrace(m, rt, el, d, sel) ==
  IF isFocused(m, rt, el)
    THEN << Effect("preventDefault", <<>>), Effect("stopPropagation", <<>>),
            Effect("writeText", clip(d, sel)), Effect("copy", <<>>) >>
    ELSE <<>>

\* handleCut that dispatches the cut first and serializes what is left
handleCutTraceDispatchFirst(m, rt, el, d, sel) ==
  IF isFocused(m, rt, el)
    THEN << Effect("preventDefault", <<>>), Effect("stopPropagation", <<>>),
            Effect("cut", <<>>), Effect("writeText", clip(StoreCut(d, sel), sel)) >>
    ELSE <<>>

\* handleCut that dispatches the cut without serializing the selection
handleCutTraceNoClip(m, rt, el, d, sel) ==
  IF isFocused(m, rt, el)
    THEN << Effect("preventDefault", <<>>), Effect("stopPropagation", <<>>),
            Effect("cut", <<>>) >>
    ELSE <<>>

\* what handleCut does, in order, when it runs in the given state
handleCutTrace(m, rt, el, d, sel) ==
  IF isFocused(m, rt, el)
    THEN << Effect("preventDefault", <<>>), Effect("stopPropagation", <<>>),
            Effect("writeText", clip(d, sel)), Effect("cut", <<>>) >>
    ELSE <<>>

\* handlePaste that intercepts the event only when it carries data
handlePasteTraceLatePrevent(m, rt, el, clipboardData) ==
  IF m = "view" /\ isFocused(m, rt, el) /\ clipboardData # NoData
    THEN << Effect("preventDefault", <<>>), Effect("stopPropagation", <<>>),
            Effect("paste", clipboardData) >>
    ELSE <<>>

\* handlePaste without the clipboardData test
handlePasteTraceNoGuard(m, rt, el, clipboardData) ==
  IF m = "view" /\ isFocused(m, rt, el)
    THEN << Effect("preventDefault", <<>>), Effect("stopPropagation", <<>>),
            Effect("paste", clipboardData) >>
    ELSE <<>>

\* what handlePaste does, in order, when it runs in the given state
handlePasteTrace(m, rt, el, clipboardData) ==
  IF m = "view" /\ isFocused(m, rt, el)
    THEN << Effect("preventDefault", <<>>), Effect("stopPropagation", <<>>) >>
         \o (IF clipboardData # NoData
               THEN << Effect("paste", clipboardData) >>
               ELSE <<>>)
    ELSE <<>>

\* the positions of a trace at which op happens
Occurrences(trace, op) == { i \in 1 .. Len(trace) : trace[i].op = op }
Dispatched(trace, op) == Occurrences(trace, op) # {}

\* a copy event is delivered to the document
handleCopy ==
  LET trace == handleCopyTrace(mode, root, activeElement, data, selected)
  IN  /\ "copy" \in listeners
      /\ last' = [Event("copy", NoData) EXCEPT !.trace = trace]
      /\ data' = IF Dispatched(trace, "copy")
                   THEN StoreCopy(data, selected) ELSE data
      /\ res' = NoRes /\ round' = NoRound
      /\ UNCHANGED <<mounted, root, listeners, parserHandlers, externalParser,
                     getValueKind, mode, activeElement, active, selected>>
      /\ LET marks == IF Dispatched(trace, "copy")
                        THEN StoreCopyMarks(copied, hasPasted, selected)
                        ELSE [copied |-> copied, hasPasted |-> hasPasted]
         IN  /\ copied' = marks.copied
             /\ hasPasted' = marks.hasPasted
             /\ indicator' = CopiedCells(marks.hasPasted, marks.copied)
      /\ UNCHANGED dragging

\* a cut event is delivered to the document
handleCut ==
  LET trace == handleCutTrace(mode, root, activeElement, data, selected)
  IN  /\ "cut" \in listeners
      /\ last' = [Event("cut", NoData) EXCEPT !.trace = trace]
      /\ data' = IF Dispatched(trace, "cut")
                   THEN StoreCut(data, selected) ELSE data
      /\ res' = NoRes /\ round' = NoRound
      /\ UNCHANGED <<mounted, root, listeners, parserHandlers, externalParser,
                     getValueKind, mode, activeElement, active, selected>>
      /\ LET marks == IF Dispatched(trace, "cut")
                        THEN StoreCopyMarks(copied, hasPasted, selected)
                        ELSE [copied |-> copied, hasPasted |-> hasPasted]
         IN  /\ copied' = marks.copied
             /\ hasPasted' = marks.hasPasted
             /\ indicator' = CopiedCells(marks.hasPasted, marks.copied)
      /\ UNCHANGED dragging

\* a paste event is delivered to the document, with or without clipboard data
handlePaste(clipboardData) ==
  LET trace == handlePasteTrace(mode, root, activeElement, clipboardData)
  IN  /\ "paste" \in listeners
      /\ clipboardData # NoData => PasteFits(data, active, clipboardData)
      /\ last' = [Event("paste", clipboardData) EXCEPT !.trace = trace]
      /\ data' = IF Dispatched(trace, "paste")
                   THEN StorePaste(data, active, clipboardData) ELSE data
      /\ res' = NoRes /\ round' = NoRound
      /\ UNCHANGED <<mounted, root, listeners, parserHandlers, externalParser,
                     getValueKind, mode, activeElement, active, selected>>
      /\ LET marks == IF Dispatched(trace, "paste")
                        THEN StorePasteMarks(copied, hasPasted)
                        ELSE [copied |-> copied, hasPasted |-> hasPasted]
         IN  /\ copied' = marks.copied
             /\ hasPasted' = marks.hasPasted
             /\ indicator' = CopiedCells(marks.hasPasted, marks.copied)
      /\ UNCHANGED dragging

\* -------------------------------------------------- keyboard and mouse
\* the keys of the model and what the user's onKeyDown prop does with an event
Keys == {"Enter", "Escape", "F5"}
KeyDownProps == {"none", "passes", "prevents"}

\* Actions.getKeyDownHandler: the handler registered for the key in the
\* store's current mode, named by the mode it switches to, "none" without one
getKeyDownHandler(m, key) ==
  IF m = "view" /\ key = "Enter" THEN "edit"
  ELSE IF m = "edit" /\ key = "Escape" THEN "view"
  ELSE "none"

\* Actions.keyDown: runs the registered handler, if there is one
StoreKeyDown(m, key) ==
  IF getKeyDownHandler(m, key) = "none" THEN m ELSE getKeyDownHandler(m, key)

\* handleKeyDown that goes on although the callback prevented the default
handleKeyDownTraceIgnoresPrevented(m, key, onKeyDown) ==
  (IF onKeyDown # "none" THEN << Effect("onKeyDown", <<key>>) >> ELSE <<>>)
  \o << Effect("getKeyDownHandler", <<key>>) >>
  \o (IF getKeyDownHandler(m, key) # "none"
        THEN << Effect("nativePreventDefault", <<>>) >> ELSE <<>>)
  \o << Effect("keyDown", <<key>>) >>

\* handleKeyDown that prevents the native default whatever the lookup says
handleKeyDownTraceAlwaysPrevents(m, key, onKeyDown) ==
  LET defaultPrevented == onKeyDown = "prevents"
  IN  (IF onKeyDown # "none" THEN << Effect("onKeyDown", <<key>>) >> ELSE <<>>)
      \o (IF ~defaultPrevented
            THEN << Effect("getKeyDownHandler", <<key>>),
                    Effect("nativePreventDefault", <<>>),
                    Effect("keyDown", <<key>>) >>
            ELSE <<>>)

\* what handleKeyDown does, in order, for a key with store mode m
handleKeyDownTrace(m, key, onKeyDown) ==
  LET defaultPrevented == onKeyDown = "prevents"
  IN  (IF onKeyDown # "none" THEN << Effect("onKeyDown", <<key>>) >> ELSE <<>>)
      \o (IF ~defaultPrevented
            THEN << Effect("getKeyDownHandler", <<key>>) >>
                 \o (IF getKeyDownHandler(m, key) # "none"
                       THEN << Effect("nativePreventDefault", <<>>) >>
                       ELSE <<>>)
                 \o << Effect("keyDown", <<key>>) >>
            ELSE <<>>)

\* a key-down event on the focused element bubbles to the root element
handleKeyDown(key, onKeyDown) ==
  LET trace == handleKeyDownTrace(mode, key, onKeyDown)
  IN  /\ mounted
      /\ activeElement \in {"root", "child"}
      /\ last' = [Event("keydown", NoData) EXCEPT
                    !.input = <<key, onKeyDown>>, !.trace = trace]
      /\ mode' = IF Dispatched(trace, "keyDown")
                   THEN StoreKeyDown(mode, key) ELSE mode
      /\ res' = NoRes /\ round' = NoRound
      /\ UNCHANGED <<mounted, root, listeners, parserHandlers, externalParser,
                     getValueKind, activeElement, data, active, selected>>
      /\ UNCHANGED <<dragging, copied, hasPasted, indicator>>

\* the values of event.buttons: none, primary, secondary
Buttons == {0, 1, 2}

\* Actions.dragStart and Actions.dragEnd
StoreDragStart(drg) == TRUE
StoreDragEnd(drg) == FALSE

\* handleMouseMove that starts a drag without asking the store
handleMouseMoveTraceNoStoreCheck(drg, buttons) ==
  IF buttons = 1
    THEN << Effect("dragStart", <<>>), Effect("addMouseUp", <<>>) >>
    ELSE <<>>

\* what handleMouseMove does, in order, with store.dragging = drg
handleMouseMoveTrace(drg, buttons) ==
  IF ~drg /\ buttons = 1
    THEN << Effect("dragStart", <<>>), Effect("addMouseUp", <<>>) >>
    ELSE <<>>

\* what handleMouseUp does, in order
handleMouseUpTrace == << Effect("dragEnd", <<>>), Effect("removeMouseUp", <<>>) >>

\* a mouse-move event reaches the root element of the mounted component
handleMouseMove(buttons) ==
  LET trace == handleMouseMoveTrace(dragging, buttons)
  IN  /\ mounted
      /\ last' = [Event("mousemove", NoData) EXCEPT
                    !.input = <<buttons>>, !.trace = trace]
      /\ dragging' = IF Dispatched(trace, "dragStart")
                       THEN StoreDragStart(dragging) ELSE dragging
      /\ listeners' = IF Dispatched(trace, "addMouseUp")
                        THEN listeners \cup {"mouseup"} ELSE listeners
      /\ res' = NoRes /\ round' = NoRound
      /\ UNCHANGED <<mounted, root, parserHandlers, externalParser,
                     getValueKind, mode, activeElement, data, active, selected>>
      /\ UNCHANGED <<copied, hasPasted, indicator>>

\* a mouse-up event is delivered to the document
handleMouseUp ==
  LET trace == handleMouseUpTrace
  IN  /\ "mouseup" \in listeners
      /\ last' = [Event("mouseup", NoData) EXCEPT !.trace = trace]
      /\ dragging' = StoreDragEnd(dragging)
      /\ listeners' = listeners \ {"mouseup"}
      /\ res' = NoRes /\ round' = NoRound
      /\ UNCHANGED <<mounted, root, parserHandlers, externalParser,
                     getValueKind, mode, activeElement, data, active, selected>>
      /\ UNCHANGED <<copied, hasPasted, indicator>>

\* ---------------------------------------------------- formula resolution
\* util.getComputedValue on a literal cell: the configured getValue's result
getComputedValue(kind, cell) == GetValueProp(kind, cell)

\* coordinates the evaluator can ask for: the matrix and one index beyond it
CoordRows == 0 .. NumRows
CoordCols == 0 .. NumCols
Coords == [row : CoordRows, column : CoordCols]

\* the "callCellValue" handler with done called at the end of the try block
callCellValueNoFinally(d, kind, cellCoord) ==
  LET cell == Get(cellCoord.row, cellCoord.column, d)
      failed == GetValueThrows(kind, cell)
  IN  [kind |-> "cell", start |-> cellCoord, end |-> cellCoord,
       done |-> IF failed THEN 0 ELSE 1,
       value |-> IF failed THEN Undefined ELSE getComputedValue(kind, cell),
       values |-> <<>>, logged |-> failed, threw |-> FALSE]

\* the "callCellValue" handler with the row and column indices exchanged
callCellValueSwapped(d, kind, cellCoord) ==
  LET cell == Get(cellCoord.column, cellCoord.row, d)
      failed == GetValueThrows(kind, cell)
  IN  [kind |-> "cell", start |-> cellCoord, end |-> cellCoord,
       done |-> 1,
       value |-> IF failed THEN Undefined ELSE getComputedValue(kind, cell),
       values |-> <<>>, logged |-> failed, threw |-> FALSE]

\* the "callCellValue" handler: try { get; compute } catch { log } finally { done }
callCellValue(d, kind, cellCoord) ==
  LET cell == Get(cellCoord.row, cellCoord.column, d)
      failed == GetValueThrows(kind, cell)
      value == IF failed THEN Undefined ELSE getComputedValue(kind, cell)
  IN  [kind |-> "cell", start |-> cellCoord, end |-> cellCoord,
       done |-> 1, value |-> value, values |-> <<>>,
       logged |-> failed, threw |-> FALSE]

\* the "callRangeValue" handler with the end point's row taken from its column
callRangeValueSwappedEnd(d, kind, startCellCoord, endCellCoord) ==
  LET startPoint == [row |-> startCellCoord.row, column |-> startCellCoord.column]
      endPoint == [row |-> endCellCoord.column, column |-> endCellCoord.column]
      sliced == Slice(startPoint, endPoint, d)
      transform(cell, coords) == getComputedValue(kind, cell)
      \* Matrix.toArray: the transform on every position, row-major, as rows
      values == [r \in DOMAIN sliced |->
                   [c \in DOMAIN sliced[r] |->
                      transform(sliced[r][c], [row |-> r - 1, column |-> c - 1])]]
      failed == \E r \in DOMAIN sliced : \E c \in DOMAIN sliced[r] :
                  GetValueThrows(kind, sliced[r][c])
  IN  [kind |-> "range", start |-> startCellCoord, end |-> endCellCoord,
       done |-> IF failed THEN 0 ELSE 1, value |-> Undefined,
       values |-> IF failed THEN <<>> ELSE values,
       logged |-> FALSE, threw |-> failed]

\* the "callRangeValue" handler: no try block around toArray, then done(values)
callRangeValue(d, kind, startCellCoord, endCellCoord) ==
  LET startPoint == [row |-> startCellCoord.row, column |-> startCellCoord.column]
      endPoint == [row |-> endCellCoord.row, column |-> endCellCoord.column]
      sliced == Slice(startPoint, endPoint, d)
      transform(cell, coords) == getComputedValue(kind, cell)
      \* Matrix.toArray: the transform on every position, row-major, as rows
      values == [r \in DOMAIN sliced |->
                   [c \in DOMAIN sliced[r] |->
                      transform(sliced[r][c], [row |-> r - 1, column |-> c - 1])]]
      failed == \E r \in DOMAIN sliced : \E c \in DOMAIN sliced[r] :
                  GetValueThrows(kind, sliced[r][c])
  IN  [kind |-> "range", start |-> startCellCoord, end |-> endCellCoord,
       done |-> IF failed THEN 0 ELSE 1, value |-> Undefined,
       values |-> IF failed THEN <<>> ELSE values,
       logged |-> FALSE, threw |-> failed]

\* a store update while the component is mounted
StoreUpdate(p, v) == mounted /\ SetCell(p, v)

\* a resolution that reads the matrix the store was constructed with
ResolveCellAtConstruction(cellCoord) ==
  /\ parserHandlers >= 1
  /\ mounted \/ externalParser
  /\ res' = callCellValue(EmptyMatrix, getValueKind, cellCoord)
  /\ last' = NoEvent /\ round' = NoRound
  /\ UNCHANGED <<mounted, root, listeners, parserHandlers, externalParser,
                 getValueKind, mode, activeElement, data, active, selected>>
  /\ UNCHANGED <<dragging, copied, hasPasted, indicator>>

\* the evaluator asks a registered handler for one cell; the component's own
\* evaluator is used by its mounted cells only
ResolveCell(cellCoord) ==
  /\ parserHandlers >= 1
  /\ mounted \/ externalParser
  /\ res' = callCellValue(data, getValueKind, cellCoord)
  /\ last' = NoEvent /\ round' = NoRound
  /\ UNCHANGED <<mounted, root, listeners, parserHandlers, externalParser,
                 getValueKind, mode, activeElement, data, active, selected>>
  /\ UNCHANGED <<dragging, copied, hasPasted, indicator>>

\* the evaluator asks a registered handler for a rectangle of cells
ResolveRange(startCellCoord, endCellCoord) ==
  /\ parserHandlers >= 1
  /\ mounted \/ externalParser
  /\ startCellCoord.row <= endCellCoord.row
  /\ startCellCoord.column <= endCellCoord.column
  /\ res' = callRangeValue(data, getValueKind, startCellCoord, endCellCoord)
  /\ last' = NoEvent /\ round' = NoRound
  /\ UNCHANGED <<mounted, root, listeners, parserHandlers, externalParser,
                 getValueKind, mode, activeElement, data, active, selected>>
  /\ UNCHANGED <<dragging, copied, hasPasted, indicator>>

\* the evaluator emits "callCellValue": every handler registered on it runs
EmitCell(cellCoord) ==
  LET one == callCellValue(data, getValueKind, cellCoord)
  IN  /\ parserHandlers >= 1
      /\ res' = [one EXCEPT !.kind = "emitCell",
                            !.done = one.done * parserHandlers]
      /\ last' = NoEvent /\ round' = NoRound
      /\ UNCHANGED <<mounted, root, listeners, parserHandlers, externalParser,
                     getValueKind, mode, activeElement, data, active, selected>>
      /\ UNCHANGED <<dragging, copied, hasPasted, indicator>>

\* the evaluator emits "callRangeValue": every handler registered on it runs
EmitRange(startCellCoord, endCellCoord) ==
  LET one == callRangeValue(data, getValueKind, startCellCoord, endCellCoord)
  IN  /\ parserHandlers >= 1
      /\ startCellCoord.row <= endCellCoord.row
      /\ startCellCoord.column <= endCellCoord.column
      /\ res' = [one EXCEPT !.kind = "emitRange",
                            !.done = one.done * parserHandlers]
      /\ last' = NoEvent /\ round' = NoRound
      /\ UNCHANGED <<mounted, root, listeners, parserHandlers, externalParser,
                     getValueKind, mode, activeElement, data, active, selected>>
      /\ UNCHANGED <<dragging, copied, hasPasted, indicator>>

\* --------------------------------------------------------- serialization
\* the text clip writes, split back into rows and fields as paste does
RoundTrip ==
  /\ ~round.applied
  /\ round' = [applied |-> TRUE, text |-> clip(data, selected),
               parsed |-> Split(clip(data, selected))]
  /\ last' = NoEvent /\ res' = NoRes
  /\ UNCHANGED <<mounted, root, listeners, parserHandlers, externalParser,
                 getValueKind, mode, activeElement, data, active, selected>>
  /\ UNCHANGED <<dragging, copied, hasPasted, indicator>>

\* -------------------------------------------------------- specification
Origin == [row |-> 0, column |-> 0]

Init ==
  /\ mounted = FALSE
  /\ root = "null"
  /\ listeners = {}
  /\ parserHandlers = 0
  /\ externalParser = FALSE
  /\ getValueKind = "default"
  /\ mode = "view"
  /\ activeElement = "outside"
  /\ data = EmptyMatrix
  /\ active = Origin
  /\ selected = {Origin}
  /\ dragging = FALSE
  /\ copied = {}
  /\ hasPasted = FALSE
  /\ indicator = {}
  /\ last = NoEvent
  /\ res = NoRes
  /\ round = NoRound

Next ==
  \/ Mount
  \/ Unmount
  \/ \E el \in Elements : Focus(el)
  \/ \E m \in Modes : SetMode(m)
  \/ \E p \in Points, v \in StoreValues \cup {Undefined} : SetCell(p, v)
  \/ handleCopy
  \/ handleCut
  \/ \E t \in PasteTexts \cup {NoData} : handlePaste(t)

Spec == Init /\ [][Next]_vars

\* formula resolution: either getValue prop, the component's own evaluator
InitFormula ==
  /\ mounted = FALSE
  /\ root = "null"
  /\ listeners = {}
  /\ parserHandlers = 0
  /\ externalParser = FALSE
  /\ getValueKind \in GetValueKinds
  /\ mode = "view"
  /\ activeElement = "outside"
  /\ data = EmptyMatrix
  /\ active = Origin
  /\ selected = {Origin}
  /\ dragging = FALSE
  /\ copied = {}
  /\ hasPasted = FALSE
  /\ indicator = {}
  /\ last = NoEvent
  /\ res = NoRes
  /\ round = NoRound

NextFormula ==
  \/ Mount
  \/ Unmount
  \/ \E p \in Points, v \in StoreValues \cup {Undefined} : SetCell(p, v)
  \/ \E c \in Coords : ResolveCell(c)
  \/ \E s \in Coords, e \in Coords : ResolveRange(s, e)

SpecFormula == InitFormula /\ [][NextFormula]_vars

\* serialization: a mounted, focused widget over any matrix and selection
InitClip ==
  /\ mounted = TRUE
  /\ root = "div"
  /\ listeners = ClipboardListeners
  /\ parserHandlers = 1
  /\ externalParser = FALSE
  /\ getValueKind = "default"
  /\ mode = "view"
  /\ activeElement = "root"
  /\ data \in MatricesOver(ClipValues)
  /\ \E p \in Points, q \in Points :
        /\ selected = RangeSet(p, q)
        /\ active = PointSetMin(selected)
  /\ dragging = FALSE
  /\ copied = {}
  /\ hasPasted = FALSE
  /\ indicator = {}
  /\ last = NoEvent
  /\ res = NoRes
  /\ round = NoRound

NextClip ==
  \/ handleCopy
  \/ handleCut
  \/ RoundTrip

SpecClip == InitClip /\ [][NextClip]_vars

\* the geometry of the selection: any rectangle over plain values
InitRect ==
  /\ mounted = TRUE
  /\ root = "div"
  /\ listeners = ClipboardListeners
  /\ parserHandlers = 1
  /\ externalParser = FALSE
  /\ getValueKind = "default"
  /\ mode = "view"
  /\ activeElement = "root"
  /\ data \in MatricesOver(StoreValues)
  /\ \E p \in Points, q \in Points :
        /\ selected = RangeSet(p, q)
        /\ active = PointSetMin(selected)
  /\ dragging = FALSE
  /\ copied = {}
  /\ hasPasted = FALSE
  /\ indicator = {}
  /\ last = NoEvent
  /\ res = NoRes
  /\ round = NoRound

NextRect ==
  \/ handleCopy
  \/ handleCut

SpecRect == InitRect /\ [][NextRect]_vars

\* keyboard and mouse: the component, its store's mode and drag flag
InitInput ==
  /\ mounted = FALSE
  /\ root = "null"
  /\ listeners = {}
  /\ parserHandlers = 0
  /\ externalParser = FALSE
  /\ getValueKind = "default"
  /\ mode = "view"
  /\ activeElement = "outside"
  /\ data = EmptyMatrix
  /\ active = Origin
  /\ selected = {Origin}
  /\ dragging = FALSE
  /\ copied = {}
  /\ hasPasted = FALSE
  /\ indicator = {}
  /\ last = NoEvent
  /\ res = NoRes
  /\ round = NoRound

NextInput ==
  \/ Mount
  \/ Unmount
  \/ \E el \in Elements : Focus(el)
  \/ \E key \in Keys, onKeyDown \in KeyDownProps : handleKeyDown(key, onKeyDown)
  \/ \E buttons \in Buttons : handleMouseMove(buttons)
  \/ handleMouseUp

SpecInput == InitInput /\ [][NextInput]_vars

\* one lifetime of the component: mounted over an empty matrix, the store is
\* updated and the evaluator asks only afterwards
NextLive ==
  \/ Mount
  \/ \E p \in Points, v \in StoreValues \cup {Undefined} : StoreUpdate(p, v)
  \/ \E cellCoord \in Coords : ResolveCell(cellCoord)
  \/ \E startCellCoord \in Coords, endCellCoord \in Coords :
        ResolveRange(startCellCoord, endCellCoord)

SpecLive == InitFormula /\ [][NextLive]_vars

\* the copied-region indicator: a focused component in view mode whose
\* selection is the first cell or the first two cells of the first row
InitCopied ==
  /\ mounted = TRUE
  /\ root = "div"
  /\ listeners = ClipboardListeners
  /\ parserHandlers = 1
  /\ externalParser = FALSE
  /\ getValueKind = "default"
  /\ mode = "view"
  /\ activeElement = "root"
  /\ data = EmptyMatrix
  /\ active = Origin
  /\ selected \in { RangeSet(Origin, Origin),
                    RangeSet(Origin, [row |-> 0, column |-> 1]) }
  /\ dragging = FALSE
  /\ copied = {}
  /\ hasPasted = FALSE
  /\ indicator = {}
  /\ last = NoEvent
  /\ res = NoRes
  /\ round = NoRound

NextCopied ==
  \/ \E p \in Points : Select(p)
  \/ handleCopy
  \/ handleCut
  \/ \E t \in PasteTexts : handlePaste(t)

SpecCopied == InitCopied /\ [][NextCopied]_vars

\* an evaluator supplied through the formulaParser prop outlives the
\* component; the default getValue, which does not throw
InitEvaluator ==
  /\ mounted = FALSE
  /\ root = "null"
  /\ listeners = {}
  /\ parserHandlers = 0
  /\ externalParser = TRUE
  /\ getValueKind = "default"
  /\ mode = "view"
  /\ activeElement = "outside"
  /\ data = EmptyMatrix
  /\ active = Origin
  /\ selected = {Origin}
  /\ dragging = FALSE
  /\ copied = {}
  /\ hasPasted = FALSE
  /\ indicator = {}
  /\ last = NoEvent
  /\ res = NoRes
  /\ round = NoRound

NextEvaluator ==
  \/ Mount
  \/ Unmount
  \/ \E p \in Points, v \in StoreValues \cup {Undefined} : SetCell(p, v)
  \/ \E cellCoord \in Coords : EmitCell(cellCoord)
  \/ \E startCellCoord \in Coords, endCellCoord \in Coords :
        EmitRange(startCellCoord, endCellCoord)

SpecEvaluator == InitEvaluator /\ [][NextEvaluator]_vars

\* ================================================================ claims
ClipboardKinds == {"copy", "cut", "paste"}

\* the event was delivered in view mode with focus on the root or inside it
Handled(e) ==
  /\ e.mode = "view"
  /\ e.root = "div"
  /\ e.activeElement \in {"root", "child"}

\* the texts an event's handler wrote to the clipboard, in order
Written(trace) ==
  LET W == Occurrences(trace, "writeText")
  IN  [i \in 1 .. Cardinality(W) |->
         trace[CHOOSE k \in W : Cardinality({j \in W : j <= k}) = i].arg]

StoreDispatches == {"copy", "cut", "paste"}

\* C1: a copy, cut or paste event delivered while the mode is not "view" or
\* while focus is outside the widget writes nothing to the clipboard,
\* dispatches nothing and leaves the store's data as it was.
C1_IgnoredEventIsNoOp ==
  (last.kind \in ClipboardKinds /\ ~Handled(last)) =>
     /\ Written(last.trace) = <<>>
     /\ \A op \in StoreDispatches : ~Dispatched(last.trace, op)
     /\ data = last.data

\* a cut arrives in edit mode with focus inside the widget and a filled cell
C1_Witness ==
  /\ last.kind = "cut"
  /\ last.mode = "edit"
  /\ last.activeElement = "child"
  /\ \E p \in last.selected : Get(p.row, p.column, last.data) # Undefined
  /\ last.trace = <<>>

\* C2: preventDefault and stopPropagation are called on a clipboard event
\* exactly when the event is handled, once each, also for a handled paste
\* without clipboard data.
C2_InterceptedIffHandled ==
  last.kind \in ClipboardKinds =>
     \A op \in {"preventDefault", "stopPropagation"} :
        Cardinality(Occurrences(last.trace, op)) = IF Handled(last) THEN 1 ELSE 0

\* a handled paste without clipboard data is intercepted
C2_Witness ==
  /\ last.kind = "paste"
  /\ Handled(last)
  /\ last.clipboardData = NoData
  /\ Dispatched(last.trace, "preventDefault")
  /\ Dispatched(last.trace, "stopPropagation")

\* C3: a handled cut writes the text a copy handled in the same state writes
\* and dispatches the cut action once and no copy action; a handled copy
\* dispatches the copy action once and no cut action.
C3_CutSerializesAsCopy ==
  LET copyTrace == handleCopyTrace(last.mode, last.root, last.activeElement,
                                   last.data, last.selected)
  IN  /\ (last.kind = "cut" /\ Handled(last)) =>
            /\ Len(Written(last.trace)) = 1
            /\ Written(last.trace) = Written(copyTrace)
            /\ Cardinality(Occurrences(last.trace, "cut")) = 1
            /\ ~Dispatched(last.trace, "copy")
      /\ (last.kind = "copy" /\ Handled(last)) =>
            /\ Cardinality(Occurrences(last.trace, "copy")) = 1
            /\ ~Dispatched(last.trace, "cut")

\* a handled cut of two rows holding a value wrote a text and dispatched cut
C3_Witness ==
  /\ last.kind = "cut"
  /\ Handled(last)
  /\ Cardinality({p.row : p \in last.selected}) = 2
  /\ \E p \in last.selected : Get(p.row, p.column, last.data) # Undefined
  /\ Len(Written(last.trace)) = 1
  /\ Dispatched(last.trace, "cut")

\* C4: a handled paste with clipboard data dispatches exactly one paste action,
\* carrying the text as read; a handled paste without clipboard data
\* dispatches no paste action and leaves the store's data unchanged.
C4_PasteDispatch ==
  (last.kind = "paste" /\ Handled(last)) =>
     LET P == Occurrences(last.trace, "paste")
     IN  IF last.clipboardData # NoData
           THEN /\ Cardinality(P) = 1
                /\ \A i \in P : last.trace[i].arg = last.clipboardData
           ELSE /\ P = {}
                /\ data = last.data

\* a handled paste without clipboard data left a filled store as it was
C4_Witness ==
  /\ last.kind = "paste"
  /\ Handled(last)
  /\ last.clipboardData = NoData
  /\ data = last.data
  /\ \E p \in Points : Get(p.row, p.column, data) # Undefined

\* the cell a resolution request names, in the data the handler read
Requested(row, column) == Get(row, column, data)

\* the configured getValue throws on this cell
Throws(cell) == getValueKind = "strict" /\ cell = Undefined

\* the literal value the configured getValue extracts from this cell
Extracted(cell) ==
  IF cell = Undefined /\ getValueKind = "default" THEN Null ELSE cell

\* C5: every single-cell resolution calls the completion callback exactly
\* once: with the cell's computed value when lookup and computation succeed,
\* with undefined when they throw; a failure is logged and does not leave
\* the handler.
C5_CellDoneExactlyOnce ==
  res.kind = "cell" =>
     LET cell == Requested(res.start.row, res.start.column)
     IN  /\ res.done = 1
         /\ ~res.threw
         /\ res.logged = Throws(cell)
         /\ res.value = IF Throws(cell) THEN Undefined ELSE Extracted(cell)

\* a single-cell resolution whose value extraction threw
C5_Witness ==
  /\ res.kind = "cell"
  /\ Throws(Requested(res.start.row, res.start.column))
  /\ res.logged
  /\ res.done = 1
  /\ res.value = Undefined

\* C6 (as claimed): every range resolution calls the completion callback
\* exactly once and no failure leaves the handler, also when computing the
\* value of a cell of the rectangle fails.
C6_RangeDoneExactlyOnce ==
  res.kind = "range" => (res.done = 1 /\ ~res.threw)

\* C7: single-cell resolution of a coordinate without a backing cell (a hole,
\* or a coordinate beyond the matrix) delivers an absent value (null or
\* undefined) through the completion callback and does not throw.
C7_AbsentCellResolvesAbsent ==
  (res.kind = "cell" /\ Requested(res.start.row, res.start.column) = Undefined) =>
     /\ res.done = 1
     /\ res.value \in {Null, Undefined}
     /\ ~res.threw

\* a coordinate beyond the rows of a matrix that holds a cell resolved to null
C7_Witness ==
  /\ res.kind = "cell"
  /\ res.start.row = NumRows
  /\ \E p \in Points : Get(p.row, p.column, data) # Undefined
  /\ res.done = 1
  /\ res.value = Null

\* the delivered array has one row per requested row, one entry per column
RangeShape ==
  /\ Len(res.values) = res.end.row - res.start.row + 1
  /\ \A r \in 1 .. Len(res.values) :
        Len(res.values[r]) = res.end.column - res.start.column + 1

\* the entry delivered for position (r, c) of the rectangle, absent cells as e
RangeEntries(e) ==
  \A r \in 1 .. Len(res.values) : \A c \in 1 .. Len(res.values[r]) :
     LET cell == Requested(res.start.row + r - 1, res.start.column + c - 1)
     IN  res.values[r][c] = IF cell = Undefined THEN e ELSE cell

\* the text copy serialization writes for a selection of one absent cell
CopyEmpty == clip(EmptyMatrix, {Origin})

\* C8 (as claimed): a delivered range result has the shape of the requested
\* rectangle, values in row-major order, and the empty string that copy
\* serialization uses wherever the position has no backing cell.
C8_RangeAbsentIsEmptyString ==
  (res.kind = "range" /\ res.done = 1) => (RangeShape /\ RangeEntries(CopyEmpty))

\* C8 (amended): a delivered range result has the shape of the requested
\* rectangle, values in row-major order, and null (the default getValue's
\* result for an absent cell) wherever the position has no backing cell.
C8_RangeAbsentIsNull ==
  (res.kind = "range" /\ res.done = 1) => (RangeShape /\ RangeEntries(Null))

\* a delivered 2 x 2 range reaching beyond the matrix, with a cell and a hole
C8_Witness ==
  /\ res.kind = "range"
  /\ res.done = 1
  /\ res.start.row = NumRows - 1 /\ res.end.row = NumRows
  /\ res.end.column = res.start.column + 1
  /\ \E c \in 1 .. 2 : res.values[1][c] \notin {Null, Undefined}
  /\ \E c \in 1 .. 2 : res.values[1][c] = Null
  /\ res.values[2] = <<Null, Null>>

\* the display value of a position: the cell's value, empty for no cell
Display(d, row, column) ==
  IF Get(row, column, d) = Undefined THEN <<>> ELSE Get(row, column, d)

\* the display values of the selection's bounding rectangle
DisplayRect(d, sel) ==
  LET lo == PointSetMin(sel)
      hi == PointSetMax(sel)
  IN  [r \in 1 .. (hi.row - lo.row + 1) |->
         [c \in 1 .. (hi.column - lo.column + 1) |->
            Display(d, lo.row + r - 1, lo.column + c - 1)]]

\* C9 (as claimed): the text copy produces for a selection, split on newline
\* and then on tab, is the rectangle of the selection's display values.
C9_RoundTrip ==
  round.applied => round.parsed = DisplayRect(data, selected)

RECURSIVE FieldsFrom(_, _, _, _)
\* fields column..hi of a row of display values, each after the first behind a tab
FieldsFrom(d, row, column, hi) ==
  IF column > hi THEN <<>>
  ELSE Display(d, row, column)
       \o (IF column < hi THEN <<TAB>> ELSE <<>>)
       \o FieldsFrom(d, row, column + 1, hi)

RECURSIVE RowsFrom(_, _, _, _)
\* rows row..hi.row of the rectangle lo..hi, each after the first behind a newline
RowsFrom(d, row, lo, hi) ==
  IF row > hi.row THEN <<>>
  ELSE FieldsFrom(d, row, lo.column, hi.column)
       \o (IF row < hi.row THEN <<NL>> ELSE <<>>)
       \o RowsFrom(d, row + 1, lo, hi)

CountOf(text, ch) == Cardinality({i \in 1 .. Len(text) : text[i] = ch})

\* no value of the selection's rectangle holds a separator
SeparatorFree(d, sel) ==
  \A p \in RangeSet(PointSetMin(sel), PointSetMax(sel)) :
     LET v == Display(d, p.row, p.column)
     IN  \A i \in 1 .. Len(v) : v[i] \notin {TAB, NL}

\* C10: the text a handled copy or cut writes is the R rows of the selection's
\* bounding rectangle separated by newlines, each the row's C fields separated
\* by tabs; a field is the cell's value, or empty where there is no cell.
\* When no value holds a separator the text has R - 1 newlines and
\* R * (C - 1) tabs.
C10_ClipText ==
  (last.kind \in {"copy", "cut"} /\ Handled(last)) =>
     LET lo == PointSetMin(last.selected)
         hi == PointSetMax(last.selected)
         R == hi.row - lo.row + 1
         C == hi.column - lo.column + 1
         text == Written(last.trace)[1]
     IN  /\ Len(Written(last.trace)) = 1
         /\ text = RowsFrom(last.data, lo.row, lo, hi)
         /\ SeparatorFree(last.data, last.selected) =>
               /\ CountOf(text, NL) = R - 1
               /\ CountOf(text, TAB) = R * (C - 1)

\* a copy of two rows and two columns, values on the diagonal, holes beside
C10_Witness ==
  /\ last.kind = "copy"
  /\ Handled(last)
  /\ last.selected = Points
  /\ Get(0, 0, last.data) = <<"1">>
  /\ Get(0, 1, last.data) = Undefined
  /\ Get(1, 0, last.data) = Undefined
  /\ Get(1, 1, last.data) = <<"2", TAB, "3">>
  /\ Written(last.trace) = << <<"1", TAB, NL, TAB, "2", TAB, "3">> >>

\* the smaller and the larger of two indices
Lower(a, b) == IF a <= b THEN a ELSE b
Upper(a, b) == IF a >= b THEN a ELSE b

\* C11: a handled copy or cut serializes the bounding rectangle of the
\* selection, from (least row, least column) to (greatest row, greatest
\* column), whatever the order of the two corners that span the selection.
C11_BoundingRectangle ==
  (last.kind \in {"copy", "cut"} /\ Handled(last)) =>
     \A p \in last.selected, q \in last.selected :
        last.selected = RangeSet(p, q) =>
           LET lo == [row |-> Lower(p.row, q.row), column |-> Lower(p.column, q.column)]
               hi == [row |-> Upper(p.row, q.row), column |-> Upper(p.column, q.column)]
           IN  Written(last.trace) = << RowsFrom(last.data, lo.row, lo, hi) >>

\* a copy of the selection spanned by (1,0) and (0,1), a cell on each corner
C11_Witness ==
  /\ last.kind = "copy"
  /\ Handled(last)
  /\ last.selected = RangeSet([row |-> 1, column |-> 0], [row |-> 0, column |-> 1])
  /\ Populated(last.data) = { [row |-> 1, column |-> 0], [row |-> 0, column |-> 1] }
  /\ Written(last.trace) = << <<TAB, "1", NL, "1", TAB>> >>

\* C12: while the component is mounted the document carries its cut, copy
\* and paste listeners, each once; after unmount none of the three is left,
\* so a clipboard event only ever reaches a handler of a mounted component.
C12_ClipboardListeners ==
  /\ mounted => ClipboardListeners \subseteq listeners
  /\ ~mounted => listeners \cap ClipboardListeners = {}
  /\ last.kind \in ClipboardKinds => (mounted /\ last.root = "div")

\* the component was mounted and is unmounted again
C12_Witness ==
  /\ ~mounted
  /\ parserHandlers >= 1
  /\ listeners \cap ClipboardListeners = {}

\* the number of times a handler performed op
Count(trace, op) == Cardinality(Occurrences(trace, op))

\* the key and the behaviour of the onKeyDown prop of a recorded key-down
KeyOf(e) == e.input[1]
OnKeyDownOf(e) == e.input[2]

\* C13: on a key-down the onKeyDown callback, when given, is called once and
\* before anything else; when it prevents the default there is no handler
\* lookup, no native preventDefault, no key-down dispatch, and the store's
\* mode stays as it was.
C13_CallbackFirst ==
  last.kind = "keydown" =>
     /\ OnKeyDownOf(last) = "none" => Count(last.trace, "onKeyDown") = 0
     /\ OnKeyDownOf(last) # "none" =>
          /\ Count(last.trace, "onKeyDown") = 1
          /\ last.trace[1] = Effect("onKeyDown", << KeyOf(last) >>)
     /\ OnKeyDownOf(last) = "prevents" =>
          /\ \A op \in {"getKeyDownHandler", "nativePreventDefault", "keyDown"} :
                Count(last.trace, op) = 0
          /\ mode = last.mode

\* the callback prevents the default of a key the store has a handler for
C13_Witness ==
  /\ last.kind = "keydown"
  /\ OnKeyDownOf(last) = "prevents"
  /\ getKeyDownHandler(last.mode, KeyOf(last)) # "none"
  /\ last.trace = << Effect("onKeyDown", << KeyOf(last) >>) >>

\* C14: on a key-down the callback did not suppress, the native default is
\* prevented exactly when the store, in its state at the event, has a handler
\* for the key, and that before the dispatch; the key-down action is
\* dispatched exactly once, after one lookup.
C14_PreventOnlyWithHandler ==
  (last.kind = "keydown" /\ OnKeyDownOf(last) # "prevents") =>
     /\ Count(last.trace, "keyDown") = 1
     /\ Count(last.trace, "getKeyDownHandler") = 1
     /\ Count(last.trace, "nativePreventDefault") =
          (IF getKeyDownHandler(last.mode, KeyOf(last)) # "none" THEN 1 ELSE 0)
     /\ \A i \in Occurrences(last.trace, "nativePreventDefault"),
           j \in Occurrences(last.trace, "keyDown"),
           k \in Occurrences(last.trace, "getKeyDownHandler") : k < i /\ i < j
     /\ last.trace[Len(last.trace)] = Effect("keyDown", << KeyOf(last) >>)
     /\ mode = StoreKeyDown(last.mode, KeyOf(last))

\* in edit mode Escape has a handler: its default is prevented, then the
\* dispatch switches the store to view mode
C14_Witness ==
  /\ last.kind = "keydown"
  /\ OnKeyDownOf(last) = "passes"
  /\ last.mode = "edit"
  /\ KeyOf(last) = "Escape"
  /\ Count(last.trace, "nativePreventDefault") = 1
  /\ mode = "view"

\* the same without a handler: F5 is dispatched with its default untouched
C14_WitnessNoHandler ==
  /\ last.kind = "keydown"
  /\ OnKeyDownOf(last) = "none"
  /\ KeyOf(last) = "F5"
  /\ last.trace = << Effect("getKeyDownHandler", <<"F5">>), Effect("keyDown", <<"F5">>) >>

\* the value of event.buttons of a recorded mouse-move
ButtonsOf(e) == e.input[1]

\* C15: a mouse-move dispatches drag-start and attaches the mouse-up listener
\* exactly when buttons = 1 and the store is not dragging; a mouse-up
\* dispatches drag-end and removes the listener; the listener is attached
\* exactly while the store is dragging, so drag-start and drag-end alternate
\* and a listener fires once.
C15_DragAlternates ==
  /\ dragging <=> ("mouseup" \in listeners)
  /\ last.kind = "mousemove" =>
       LET starts == ~last.dragging /\ ButtonsOf(last) = 1
       IN  /\ last.trace = (IF starts
                              THEN << Effect("dragStart", <<>>),
                                      Effect("addMouseUp", <<>>) >>
                              ELSE <<>>)
           /\ dragging = (last.dragging \/ starts)
  /\ last.kind = "mouseup" =>
       /\ last.dragging
       /\ last.trace = << Effect("dragEnd", <<>>), Effect("removeMouseUp", <<>>) >>
       /\ ~dragging

\* the pointer moves with the primary button held while a drag is under way
C15_Witness ==
  /\ last.kind = "mousemove"
  /\ last.dragging
  /\ ButtonsOf(last) = 1
  /\ last.trace = <<>>
  /\ "mouseup" \in listeners

\* C19: after unmount no document listener of the component is left, also
\* when the unmount comes during a drag, and no mouse-up is handled by an
\* unmounted component.
C19_ReleasedOnUnmount ==
  /\ ~mounted => listeners = {}
  /\ last.kind = "mouseup" => last.root = "div"

\* C16: a delivered single-cell or range result is computed from the store's
\* matrix as it is at the request, whatever the matrix was at mount or at an
\* earlier request.
C16_ReadsLatestMatrix ==
  /\ (res.kind = "cell" /\ res.done = 1 /\ ~res.logged) =>
        res.value = Extracted(Requested(res.start.row, res.start.column))
  /\ (res.kind = "range" /\ res.done = 1) =>
        /\ RangeShape
        /\ \A r \in 1 .. Len(res.values) : \A c \in 1 .. Len(res.values[r]) :
              res.values[r][c] =
                Extracted(Requested(res.start.row + r - 1, res.start.column + c - 1))

\* a cell written after the mount over the empty matrix is what a request gets
C16_Witness ==
  /\ mounted
  /\ res.kind = "cell"
  /\ res.done = 1
  /\ res.value \in StoreValues
  /\ Get(res.start.row, res.start.column, EmptyMatrix) = Undefined

\* C17: a handled copy or cut writes the clipboard once, before it dispatches
\* its store action, and the text is the serialization of the data and the
\* selection as they were before the dispatch: a cut writes the values it is
\* about to clear.
C17_WriteBeforeDispatch ==
  (last.kind \in {"copy", "cut"} /\ Handled(last)) =>
     /\ Count(last.trace, "writeText") = 1
     /\ Count(last.trace, last.kind) = 1
     /\ \A w \in Occurrences(last.trace, "writeText"),
           d \in Occurrences(last.trace, last.kind) : w < d
     /\ Written(last.trace) = << clip(last.data, last.selected) >>
     /\ data = (IF last.kind = "cut" THEN StoreCut(last.data, last.selected)
                                     ELSE last.data)

\* a cut of a filled cell: the text holds the value the store no longer has
C17_Witness ==
  /\ last.kind = "cut"
  /\ Handled(last)
  /\ \E p \in last.selected :
        /\ Get(p.row, p.column, last.data) # Undefined
        /\ Get(p.row, p.column, data) = Undefined
  /\ Written(last.trace) # << clip(data, last.selected) >>

\* C18: the copied-region indicator is the empty point set while the store's
\* hasPasted flag is set, and otherwise exactly the points that are keys of
\* the store's copied region.
C18_CopiedIndicator ==
  /\ hasPasted => indicator = {}
  /\ ~hasPasted => \A p \in Points : (p \in indicator) <=> (p \in copied)

\* two cells were copied, then a paste elsewhere: the region is still in the
\* store and the indicator covers nothing
C18_Witness ==
  /\ hasPasted
  /\ Cardinality(copied) = 2
  /\ selected # copied
  /\ indicator = {}

\* two cells are copied and not yet pasted: the indicator covers both
C18_WitnessCopied ==
  /\ ~hasPasted
  /\ Cardinality(copied) = 2
  /\ indicator = copied

\* C20: with an evaluator supplied from outside, the handlers a mount
\* registers do not pile up on the evaluator over unmount and remount, and
\* every request the evaluator emits gets its completion callback invoked
\* exactly once.
C20_DoneOncePerRequest ==
  /\ parserHandlers <= 1
  /\ res.kind \in {"emitCell", "emitRange"} => res.done = 1

====
